---- MODULE Spec2Model ----
(***************************************************************************)
(* Adaptive multi-exit BERT encoder (AESD-CG): the staged forward pass of  *)
(* BertEncoder with its exit heads, the entropy scorer, the early-exit     *)
(* signal, the threshold configuration, the copy of the pooler into the    *)
(* exit heads, the loss, the tail of BertForSequenceClassification.forward *)
(* and the loops of train() and evaluate().                                *)
(*                                                                         *)
(* Tensors of floats are fixed-point integers: the real number r is the    *)
(* integer r * FxOne.  torch.exp and torch.log are the piecewise-linear    *)
(* functions through the points of ExpTable (LogFx is the inverse of       *)
(* ExpFx), with float32 overflow of exp above ExpOverflow and of x*exp(x)   *)
(* above MulOverflow.  A score tensor of shape (batch, C) is a sequence    *)
(* (one entry per example) of sequences (one entry per class).             *)
(***************************************************************************)
EXTENDS Integers, Sequences, FiniteSets, TLC

VARIABLES
    loss_fct,            \* BertForSequenceClassification.loss_fct: gamma and T of the loss
    num_labels,          \* config.num_labels (C)
    early_exit_entropy,  \* BertEncoder.early_exit_entropy: [kind, owner, v]
    training,            \* nn.Module.training of the model
    pc,                  \* "idle" | "encoder" | "tail" | "returned" | "raised" | "trained"
    call,                \* the call in flight or just ended: its function and arguments,
                         \* and for forward the thresholds as they were when it started
    hidden_states,       \* number of backbone layers applied to the representation
    i,                   \* loop index of BertEncoder.forward (stages executed so far)
    all_logist,          \* raw score tensors of the exit heads of this pass
    pre_logist,          \* raw score tensor of the previous exit head, <<>> for None
    all_EElayer_exits,   \* accumulated exit tuples of this pass
    exc,                 \* the exception in flight or raised to the caller
    outputs,             \* what the forward call returned
    caller,              \* "api" | "train" | "loss": who issued the call
    args,                \* the arguments of train()
    step,                \* train(): batches taken from the data loader so far
    train_locals,        \* train(): are ce_loss, kld_loss, full_loss, l_loss bound
    n_backward,          \* train(): backward passes done
    n_acc,               \* train(): additions made to tr_loss, tr_ce_loss, tr_kld_loss
    global_step,         \* train(): optimizer steps taken
    params,              \* the parameters of the source pooler and of the exit heads
    eval_args,           \* the arguments of evaluate()
    nb_eval_steps,       \* evaluate(): batches evaluated so far
    exit_layer_counter,  \* evaluate(): exit index -> number of batches that ended there
    eval_result          \* evaluate(): what the result-writing step computed

vars == <<loss_fct, num_labels, early_exit_entropy, training, pc, call, hidden_states,
          i, all_logist, pre_logist, all_EElayer_exits, exc, outputs, caller, args,
          step, train_locals, n_backward, n_acc, global_step, params, eval_args,
          nb_eval_steps, exit_layer_counter, eval_result>>

passVars == <<call, hidden_states, i, all_logist, pre_logist, all_EElayer_exits, exc, outputs>>
trainVars == <<args, step, train_locals, n_backward, n_acc, global_step>>
evalVars == <<eval_args, nb_eval_steps, exit_layer_counter, eval_result>>

----------------------------------------------------------------------------
(* Bounds *)

\* config.num_hidden_layers: the number of backbone stages and exit heads
N == 3
\* largest batch of a forward call
MaxBatch == 2
\* largest number of batches one train() call iterates over
MaxSteps == 2

----------------------------------------------------------------------------
(* Float arithmetic *)

FxOne == 1000
ExpStep == 500
\* the lowest argument of ExpTable: exp at -5, -4.5, ... , 3; below it exp is under
\* the resolution of the arithmetic
ExpLo == -5000
ExpTable == <<7, 11, 18, 30, 50, 82, 135, 223, 368, 607, 1000, 1649, 2718, 4482, 7389,
              12182, 20086>>
ExpHi == ExpLo + (Len(ExpTable) - 1) * ExpStep
\* exp(x) in float32 is inf for x above 88.72 and 0 for x below -103.97
ExpOverflow == 88722
ExpUnderflow == -103972
\* x * exp(x) in float32 is inf for x above 84.28 (x + ln x > ln FLT_MAX), where exp(x)
\* itself is still finite
MulOverflow == 84288

Fin(v) == [k |-> "fin", v |-> v]
NaN == [k |-> "nan", v |-> 0]
Inf == [k |-> "inf", v |-> 0]
NegInf == [k |-> "-inf", v |-> 0]

RECURSIVE SumSeq(_)
SumSeq(s) == IF s = <<>> THEN 0 ELSE Head(s) + SumSeq(Tail(s))

RECURSIVE MaxSeq(_)
MaxSeq(s) ==
    IF Len(s) = 1 THEN s[1]
    ELSE LET m == MaxSeq(Tail(s)) IN IF Head(s) > m THEN Head(s) ELSE m

\* a product of two fixed-point numbers; a large factor is scaled down first
MulFx(a, b) == IF a >= 40 * FxOne \/ a <= -(40 * FxOne) THEN (a \div FxOne) * b
               ELSE IF b >= 40 * FxOne \/ b <= -(40 * FxOne) THEN a * (b \div FxOne)
               ELSE (a * b) \div FxOne

\* torch.exp on one element
ExpFx(x) ==
    IF x > ExpOverflow THEN Inf
    ELSE IF x < ExpLo THEN Fin(0)
    ELSE LET q == (x - ExpLo) \div ExpStep + 1
             s == IF q >= Len(ExpTable) THEN Len(ExpTable) - 1
                  ELSE IF q < 1 THEN 1 ELSE q
             lo == ExpTable[s]
             hi == ExpTable[s + 1]
         IN Fin(lo + ((hi - lo) * (x - ExpLo - (s - 1) * ExpStep)) \div ExpStep)

\* torch.log on one finite positive element
LogFx(a) ==
    LET segs == {s \in 1..(Len(ExpTable) - 1) : ExpTable[s] <= a}
        s == IF segs = {} THEN 1 ELSE CHOOSE t \in segs : \A u \in segs : u <= t
        lo == ExpTable[s]
        hi == ExpTable[s + 1]
    IN ExpLo + (s - 1) * ExpStep + ((a - lo) * ExpStep) \div (hi - lo)

\* log(A) - B/A on a row whose scores lie within the table
EntropyInTable(x) ==
    LET exp_x == [c \in DOMAIN x |-> ExpFx(x[c]).v]
        A == SumSeq(exp_x)
        B == SumSeq([c \in DOMAIN x |-> x[c] * exp_x[c]])
    IN Fin(LogFx(A) - B \div A)

\* entropy(x) for one row of x: log(A) - B/A with A = sum exp(x_c), B = sum x_c*exp(x_c).
\* An overflowing exp makes A and B inf, so B/A and the result are nan; so does an exp
\* that underflows in every class (A = 0, B/A = 0/0).  A score whose exp is finite but
\* whose x*exp(x) overflows makes B inf with A finite: log(A) - inf = -inf.  Below that,
\* float32 gives the value of the row shifted by its maximum, up to rounding.
EntropyRow(x) ==
    LET m == MaxSeq(x)
    IN IF m > ExpOverflow \/ m < ExpUnderflow THEN NaN
       ELSE IF m > MulOverflow THEN NegInf
       ELSE IF m > ExpHi \/ m < ExpLo THEN EntropyInTable([c \in DOMAIN x |-> x[c] - m])
       ELSE EntropyInTable(x)

\* entropy(x): one value per example (the sums run over dim=1)
entropy(x) == [b \in DOMAIN x |-> EntropyRow(x[b])]

----------------------------------------------------------------------------
(* Inputs *)

\* log(C), the entropy of uniform scores over C = num_labels classes
LogC == LogFx(num_labels * FxOne)

\* values a caller passes as thresholds: the default -1, log(C) and 1.0
ThresholdVals == {-FxOne, LogC, FxOne}

\* a python float given to set_early_exit_entropy
ScalarArgs == {[kind |-> "float", v |-> <<t>>] : t \in ThresholdVals}

\* sequences given to set_early_exit_entropy: a list or a tuple of N thresholds that
\* lets exactly one stage exit, and a list that is one threshold short; the object is
\* the caller's, who keeps a reference to it
SeqArgs ==
    {[kind |-> "list", owner |-> "caller",
      v |-> [j \in 1..N |-> IF j = m THEN FxOne ELSE -FxOne]] : m \in {2, N}}
    \cup {[kind |-> "tuple", owner |-> "caller",
           v |-> [j \in 1..N |-> IF j = N THEN FxOne ELSE -FxOne]]}
    \cup {[kind |-> "list", owner |-> "caller", v |-> [j \in 1..(N - 1) |-> FxOne]]}

\* raw scores of one example: C = 2 classes, or one regression value; exp(1000.0)
\* overflows, exp(85.0) does not but 85.0 * exp(85.0) does
Big == 1000 * FxOne
Large == 85 * FxOne
ScoreVecs ==
    IF num_labels = 1 THEN {<<0>>, <<2 * FxOne>>, <<Large>>, <<Big>>}
    ELSE {<<0, 0>>, <<2 * FxOne, 0>>, <<Large, 0>>, <<Big, 0>>}

\* raw scores of a batch: the first example varies, the others score <<0, ...>>
BatchScores(B) ==
    {[b \in 1..B |-> IF b = 1 THEN v ELSE [c \in 1..num_labels |-> 0]] : v \in ScoreVecs}

\* raw scores an exit head gives in a pass: in training, where no entropy is taken of
\* them, only the scores within the range of exp
StageScores(B) ==
    IF training THEN {s \in BatchScores(B) : s[1][1] <= 2 * FxOne} ELSE BatchScores(B)

\* what the top classifier gives on the final pooled output of a batch
ClassifierScores(B) ==
    {[b \in 1..B |-> IF num_labels = 1 THEN <<FxOne>> ELSE v] : v \in {<<0, FxOne>>, <<Big, 0>>}}

\* labels of a batch: None, or class 0 (the value 0.0) for every example
LabelArgs(B) == {<<>>, [b \in 1..B |-> 0]}

NoExc == [type |-> "none"]
NoCall == [fn |-> "none"]

----------------------------------------------------------------------------
(* BertEncoder *)

\* BertEncoder.__init__: early_exit_entropy = [-1 for _ in range(num_hidden_layers)]
InitThresholds == [kind |-> "list", owner |-> "encoder", v |-> [j \in 1..N |-> -1 * FxOne]]

\* the scalar branch of set_early_exit_entropy: assigns x to every index of the
\* current value; a tuple does not support item assignment
SetScalar(cur, x) ==
    IF Len(cur.v) = 0 THEN [val |-> cur, raised |-> "none"]
    ELSE IF cur.kind = "tuple" THEN [val |-> cur, raised |-> "TypeError"]
    ELSE [val |-> [cur EXCEPT !.v = [j \in 1..Len(cur.v) |-> x]], raised |-> "none"]

\* set_early_exit_entropy(x)
set_early_exit_entropy(x) ==
    /\ pc = "idle"
    /\ caller = "api"
    /\ LET r == IF x.kind \in {"float", "int"}
                THEN SetScalar(early_exit_entropy, x.v[1])
                ELSE [val |-> x, raised |-> "none"]
       IN /\ early_exit_entropy' = r.val
          /\ exc' = IF r.raised = "none" THEN NoExc ELSE [type |-> r.raised]
          /\ pc' = IF r.raised = "none" THEN "returned" ELSE "raised"
    /\ call' = [fn |-> "set_early_exit_entropy", x |-> x]
    /\ UNCHANGED <<loss_fct, num_labels, training, hidden_states, i, all_logist, pre_logist,
                   all_EElayer_exits, outputs, caller>>
    /\ UNCHANGED trainVars
    /\ UNCHANGED evalVars
    /\ UNCHANGED params

\* values that a reconfiguration during a pass writes
DuringPassVals == {-FxOne, FxOne}

\* set_early_exit_entropy(x) with a scalar, called by another thread of the caller
\* between two stages of a pass in flight (nothing in forward or here excludes it); a
\* TypeError of that call is the other thread's
set_early_exit_entropy_during_pass ==
    /\ pc = "encoder"
    /\ caller = "api"
    /\ i >= 1
    /\ early_exit_entropy = call.thresholds_at_start
    /\ \E t \in DuringPassVals :
          early_exit_entropy' = SetScalar(early_exit_entropy, t).val
    /\ early_exit_entropy' # early_exit_entropy
    /\ UNCHANGED <<loss_fct, num_labels, training, pc, caller>>
    /\ UNCHANGED passVars
    /\ UNCHANGED trainVars
    /\ UNCHANGED evalVars
    /\ UNCHANGED params

\* the caller writes an entry of a list it gave to set_early_exit_entropy earlier, which
\* the encoder holds by reference, between two stages of a pass in flight
caller_mutates_list ==
    /\ pc = "encoder"
    /\ caller = "api"
    /\ i >= 1
    /\ early_exit_entropy = call.thresholds_at_start
    /\ early_exit_entropy.kind = "list"
    /\ early_exit_entropy.owner = "caller"
    /\ \E j \in 1..Len(early_exit_entropy.v) : \E t \in DuringPassVals :
          /\ early_exit_entropy.v[j] # t
          /\ early_exit_entropy' = [early_exit_entropy EXCEPT !.v[j] = t]
    /\ UNCHANGED <<loss_fct, num_labels, training, pc, caller>>
    /\ UNCHANGED passVars
    /\ UNCHANGED trainVars
    /\ UNCHANGED evalVars
    /\ UNCHANGED params

\* values of a parameter tensor: as init_weights leaves it, or as a checkpoint holds it
ParamVals == {0, 1}

\* the parameters of BertModel.pooler and of the pooler and the classifiers of each
\* BertEElayer
ParamStates ==
    [pooler : ParamVals, EElayer : [1..N -> [pooler : ParamVals, classifier : ParamVals]]]

\* the parameters of a model whose weights were all initialised alike
InitParams == [pooler |-> 0, EElayer |-> [j \in 1..N |-> [pooler |-> 0, classifier |-> 0]]]

PoolerCopiedFirstHead(p) == [p EXCEPT !.EElayer[1].pooler = p.pooler]

\* for EElayer in self.EElayer: for name, param in EElayer.pooler.state_dict().items():
\* param.copy_(loaded_model[name])
PoolerCopied(p) ==
    [p EXCEPT !.EElayer = [j \in 1..N |-> [p.EElayer[j] EXCEPT !.pooler = p.pooler]]]

\* BertModel.init_early_exit_pooler(): self.encoder.init_early_exit_pooler(self.pooler)
init_early_exit_pooler ==
    /\ pc = "idle"
    /\ caller = "api"
    /\ params' = PoolerCopied(params)
    /\ call' = [fn |-> "init_early_exit_pooler", before |-> params]
    /\ pc' = "returned"
    /\ exc' = NoExc
    /\ UNCHANGED <<loss_fct, num_labels, early_exit_entropy, training, hidden_states, i,
                   all_logist, pre_logist, all_EElayer_exits, outputs, caller>>
    /\ UNCHANGED trainVars
    /\ UNCHANGED evalVars

MeanScoresOverN(all) ==
    [b \in DOMAIN all[1] |->
        [c \in DOMAIN all[1][b] |->
            SumSeq([j \in 1..Len(all) |-> all[j][b][c]]) \div N]]

\* logist_output: torch.sum(torch.stack(all_logist, dim=1), dim=1) / len(all_logist)
MeanScores(all) ==
    [b \in DOMAIN all[1] |->
        [c \in DOMAIN all[1][b] |->
            SumSeq([j \in 1..Len(all) |-> all[j][b][c]]) \div Len(all)]]

\* BertEElayer.forward: the scores the classifier gives (logits) and the pooled output,
\* which for current > 0 is the pooled representation concatenated with pre_logist
BertEElayer_forward(encoder_outputs, pre, current, logits) ==
    <<logits, [stage |-> current, hidden |-> encoder_outputs,
               pre |-> IF current = 0 THEN <<>> ELSE pre]>>

BertLayerSkipped(hs) == hs

\* layer_module(hidden_states, ...)[0]: one more backbone layer applied
BertLayer_forward(hs) == hs + 1

PreLogistEnsemble(EElayer_exit, logist_output) == logist_output

\* pre_logist = EElayer_exit[0]: what the next exit head is given
PreLogist(EElayer_exit, logist_output) == EElayer_exit[1]

\* float `<` of a tensor element and a python number: False for nan and for inf, True
\* for -inf
Less(e, t) == e.k = "-inf" \/ (e.k = "fin" /\ e.v < t)

ExitTestFirstThreshold(ent, thr, idx) ==
    IF idx + 1 > Len(thr.v) THEN "IndexError"
    ELSE IF Len(ent) # 1 THEN "RuntimeError"
    ELSE IF Less(ent[1], thr.v[1]) THEN "true"
    ELSE "false"

ExitTestAtStart(ent, thr, idx) ==
    IF idx + 1 > Len(call.thresholds_at_start.v) THEN "IndexError"
    ELSE IF Len(ent) # 1 THEN "RuntimeError"
    ELSE IF Less(ent[1], call.thresholds_at_start.v[idx + 1]) THEN "true"
    ELSE "false"

ExitTestGreater(ent, thr, idx) ==
    IF idx + 1 > Len(thr.v) THEN "IndexError"
    ELSE IF Len(ent) # 1 THEN "RuntimeError"
    ELSE IF ent[1].k = "fin" /\ ent[1].v > thr.v[idx + 1] THEN "true"
    ELSE "false"

ExitTestLessEq(ent, thr, idx) ==
    IF idx + 1 > Len(thr.v) THEN "IndexError"
    ELSE IF Len(ent) # 1 THEN "RuntimeError"
    ELSE IF Less(ent[1], thr.v[idx + 1] + 1) THEN "true"
    ELSE "false"

\* `if EElayer_entropy < self.early_exit_entropy[i]`: the index is read first, the
\* comparison with nan is False, and the truth value of a tensor of more than one
\* element is a RuntimeError
ExitTest(ent, thr, idx) ==
    IF idx + 1 > Len(thr.v) THEN "IndexError"
    ELSE IF Len(ent) # 1 THEN "RuntimeError"
    ELSE IF Less(ent[1], thr.v[idx + 1]) THEN "true"
    ELSE "false"

StageTestAlways(train, ent, thr, idx) ==
    IF Len(ent) = 1 /\ idx + 1 <= Len(thr.v) /\ Less(ent[1], thr.v[idx + 1])
    THEN "true" ELSE "false"

\* the exit test of a stage: made only when not self.training
StageTest(train, ent, thr, idx) == IF train THEN "false" ELSE ExitTest(ent, thr, idx)

ExitPackageStale(logits, feature, exits) ==
    <<logits, feature, SubSeq(exits, 1, Len(exits) - 1)>>

\* new_output: the exit package (EElayer_logits, EElayer_feature, all_EElayer_exits)
ExitPackage(logits, feature, exits) == <<logits, feature, exits>>

EElayerExceptionFromZero(message, idx) ==
    [type |-> "EElayerException", message |-> message, exit_layer |-> idx]

\* raise EElayerException(new_output, i+1): the exit index counts from 1
EElayerException(message, idx) ==
    [type |-> "EElayerException", message |-> message, exit_layer |-> idx + 1]

\* what BertEncoder.forward returns: (hidden_states, all_EElayer_exits)
EncoderOutputs(hs, exits) == <<hs, exits>>

\* the locals of a pass before BertEncoder.forward starts its loop
ForwardCallKeepsLists(c, who) ==
    /\ call' = c
    /\ caller' = who
    /\ pc' = "encoder"
    /\ hidden_states' = 0
    /\ i' = 0
    /\ all_logist' = all_logist
    /\ pre_logist' = pre_logist
    /\ all_EElayer_exits' = all_EElayer_exits
    /\ exc' = NoExc
    /\ outputs' = <<>>

ForwardCall(c, who) ==
    /\ call' = c
    /\ caller' = who
    /\ pc' = "encoder"
    /\ hidden_states' = 0
    /\ i' = 0
    /\ all_logist' = <<>>
    /\ pre_logist' = <<>>
    /\ all_EElayer_exits' = <<>>
    /\ exc' = NoExc
    /\ outputs' = <<>>

\* the arguments of a forward call that the encoder does not see, drawn where forward
\* first reads them: labels, kd_loss_type (read only with labels) and output_layer
\* (read only in inference)
KwArgs(B) ==
    [labels : {<<>>}, kd_loss_type : {"kd"},
     output_layer : IF training THEN {-1} ELSE {-1, 0, N - 1}]
    \cup [labels : LabelArgs(B) \ {<<>>}, kd_loss_type : {"kd", "ce"},
          output_layer : IF training THEN {-1} ELSE {-1, 0, N - 1}]

\* model(**inputs) by a caller other than train()
Forward ==
    /\ pc = "idle"
    /\ caller = "api"
    /\ \E B \in 1..MaxBatch : ForwardCall([fn |-> "forward", batch |-> B,
                                             thresholds_at_start |-> early_exit_entropy], "api")
    /\ UNCHANGED <<loss_fct, num_labels, early_exit_entropy, training>>
    /\ UNCHANGED trainVars
    /\ UNCHANGED evalVars
    /\ UNCHANGED params

\* one iteration of the loop of BertEncoder.forward: backbone layer i, exit head i,
\* the running ensemble, and in inference the entropy and the exit test
BertEncoder_forward ==
    /\ pc = "encoder"
    /\ \E logits \in StageScores(call.batch) :
        LET layer_outputs == BertLayer_forward(hidden_states)
            EElayer_exit == BertEElayer_forward(layer_outputs, pre_logist, i, logits)
            logist == Append(all_logist, EElayer_exit[1])
            logist_output == MeanScores(logist)
            EElayer_entropy == entropy(logist_output)
            exits == IF training
                     THEN Append(all_EElayer_exits, <<logist_output, EElayer_exit[2]>>)
                     ELSE Append(all_EElayer_exits,
                                 <<logist_output, EElayer_exit[2], EElayer_entropy>>)
            test == StageTest(training, EElayer_entropy, early_exit_entropy, i)
        IN /\ hidden_states' = layer_outputs
           /\ pre_logist' = PreLogist(EElayer_exit, logist_output)
           /\ all_logist' = logist
           /\ all_EElayer_exits' = exits
           /\ i' = i + 1
           /\ exc' = IF test = "true"
                     THEN EElayerException(
                              ExitPackage(logist_output, EElayer_exit[2], exits), i)
                     ELSE IF test = "false" THEN NoExc
                     ELSE [type |-> test]
           /\ pc' = IF test = "true" THEN "tail"
                    ELSE IF test # "false" THEN "raised"
                    ELSE IF i + 1 = N THEN "tail" ELSE "encoder"
    /\ UNCHANGED <<loss_fct, num_labels, early_exit_entropy, training, call, outputs, caller>>
    /\ UNCHANGED trainVars
    /\ UNCHANGED evalVars
    /\ UNCHANGED params

----------------------------------------------------------------------------
(* Losses *)

\* ATTGTeaKDLoss(12, gamma=0.1, T=3.0, ...) in BertForSequenceClassification.__init__
gamma == 100
T == 3000

\* raw KL divergences of the stages against the attention-refined peer scores, which
\* depend on the learned attention: any of these
KLVals == {0, 90}
KLArgs(k) == {[j \in 1..k |-> v * j] : v \in KLVals}

\* log(sum(exp(x))) of one row as log_softmax computes it: the maximum is taken out
LogSumExpRow(x) ==
    LET m == MaxSeq(x)
    IN m + LogFx(SumSeq([c \in DOMAIN x |-> ExpFx(x[c] - m).v]))

\* CrossEntropyLoss()(logits.view(-1, num_labels), targets.view(-1)): the batch mean
CrossEntropy(logits, targets) ==
    SumSeq([b \in DOMAIN logits |-> LogSumExpRow(logits[b]) - logits[b][targets[b] + 1]])
        \div Len(logits)

\* MSELoss()(logits.view(-1), targets.view(-1)): the batch mean of the squared error
MSE(logits, targets) ==
    SumSeq([b \in DOMAIN logits |->
               MulFx(logits[b][1] - targets[b] * FxOne, logits[b][1] - targets[b] * FxOne)])
        \div Len(logits)

StageWeightFlat(idx) == 1

\* the weight of the 0-based stage idx in the totals
StageWeight(idx) == idx + 1

AggregateLossCeOnly(ce_loss, kd_loss) == ce_loss

\* loss = ce_loss + kd_loss
AggregateLoss(ce_loss, kd_loss) == ce_loss + kd_loss

LogitsListAppendedInPlace(eachlayer_logits_all, outs) ==
    [local |-> eachlayer_logits_all \o <<outs>>, arg |-> eachlayer_logits_all \o <<outs>>]

\* eachlayer_logits_all = eachlayer_logits_all[:-1]; eachlayer_logits_all.append(outputs):
\* the slice is a new list, to which the local name is rebound and outputs appended; arg
\* is the list object that the caller passed, as it is afterwards
LogitsListOfLoss(eachlayer_logits_all, outs) ==
    [local |-> SubSeq(eachlayer_logits_all, 1, Len(eachlayer_logits_all) - 1) \o <<outs>>,
     arg |-> eachlayer_logits_all]

\* ATTGTeaKDLoss.forward(outputs, eachlayer_logits_all, targets, soft_targets), with
\* kl the raw KL divergence of each stage.  total_loss_ce and multi_loss_ce[0] are one
\* tensor (total_loss_ce = loss_ce, then += in place), and so are the kd ones.  With
\* num_labels = 1 the first iteration applies LogSoftmax(dim=1) to a 1-D tensor.
\* locals holds the values of the frame when the function returns or raises.
ATTGTeaKDLoss_forward(outs, eachlayer_logits_all, targets, kl) ==
    LET lists == LogitsListOfLoss(eachlayer_logits_all, outs)
        logits_all == lists.local
        k == Len(logits_all)
    IN IF num_labels = 1
       THEN [raised |-> "IndexError", val |-> <<>>, arg |-> lists.arg,
             locals |-> [eachlayer_logits_all |-> logits_all, total_weights |-> 0,
                         multi_celosses |-> <<>>, distill_losses |-> <<>>]]
       ELSE LET loss_ce == [j \in 1..k |->
                               MulFx(FxOne - loss_fct.gamma,
                                     CrossEntropy(logits_all[j], targets))]
                loss_kld == [j \in 1..k |->
                    MulFx(MulFx(MulFx(kl[j], loss_fct.gamma), loss_fct.T), loss_fct.T)]
                total_loss_ce == SumSeq([j \in 1..k |->
                    IF j = 1 THEN loss_ce[j] ELSE loss_ce[j] * StageWeight(j - 1)])
                total_loss_kd == SumSeq([j \in 1..k |->
                    IF j = 1 THEN loss_kld[j] ELSE loss_kld[j] * StageWeight(j - 1)])
                total_weights == SumSeq([j \in 1..k |-> StageWeight(j - 1)])
                multi_loss_ce == [j \in 1..k |->
                    (IF j = 1 THEN total_loss_ce ELSE loss_ce[j]) \div total_weights]
                multi_loss_kd == [j \in 1..k |->
                    (IF j = 1 THEN total_loss_kd ELSE loss_kld[j]) \div total_weights]
                ce_loss == total_loss_ce \div total_weights
                kd_loss == total_loss_kd \div total_weights
            IN [raised |-> "none", arg |-> lists.arg,
                val |-> <<AggregateLoss(ce_loss, kd_loss), kd_loss, ce_loss,
                          multi_loss_kd, multi_loss_ce>>,
                locals |-> [eachlayer_logits_all |-> logits_all,
                            total_weights |-> total_weights,
                            loss_ce |-> loss_ce, loss_kld |-> loss_kld,
                            total_loss_ce |-> total_loss_ce,
                            total_loss_kd |-> total_loss_kd]]

\* a loss as outputs[0] holds it: the tuple of ATTGTeaKDLoss or one tensor
TupleLoss(v) == [type |-> "tuple", v |-> v]
TensorLoss(v) == [type |-> "tensor", v |-> <<v>>]

\* targets of a batch for the loss: every example of class 0, or of class 1
LossTargets(B) == {[b \in 1..B |-> t] : t \in 0..(num_labels - 1)}

\* the lists of k score tensors of a batch of B examples: each stage scores the first
\* example uniformly or for class 0
LogitLists(B, k) ==
    [1..k -> {[b \in 1..B |-> IF b = 1 THEN v ELSE [c \in 1..num_labels |-> 0]] :
                 v \in {[c \in 1..num_labels |-> 0],
                        [c \in 1..num_labels |-> IF c = 1 THEN 2 * FxOne ELSE 0]}}]

\* loss_fct(logits, eachlayer_logits_all, labels, soft_labels) called on its own
ATTGTeaKDLoss_call ==
    /\ pc = "idle"
    /\ caller = "loss"
    /\ \E B \in 1..MaxBatch : \E k \in 1..N :
       \E eachlayer_logits_all \in LogitLists(B, k) :
       \E outs \in BatchScores(B) :
       \E targets \in LossTargets(B) :
       \E kl \in (IF num_labels = 1 THEN {<<>>} ELSE KLArgs(k)) :
          LET r == ATTGTeaKDLoss_forward(outs, eachlayer_logits_all, targets, kl)
          IN /\ call' = [fn |-> "loss_fct", outputs |-> outs,
                         eachlayer_logits_all |-> eachlayer_logits_all,
                         targets |-> targets, kl |-> kl, locals |-> r.locals,
                         arg_after |-> r.arg]
             /\ outputs' = r.val
             /\ exc' = IF r.raised = "none" THEN NoExc ELSE [type |-> r.raised]
             /\ pc' = IF r.raised = "none" THEN "returned" ELSE "raised"
    /\ UNCHANGED <<loss_fct, num_labels, early_exit_entropy, training, hidden_states, i,
                   all_logist, pre_logist, all_EElayer_exits, caller>>
    /\ UNCHANGED trainVars
    /\ UNCHANGED evalVars
    /\ UNCHANGED params

----------------------------------------------------------------------------
(* train() *)

\* the arguments of train(): kd_loss, n_gpu, gradient_accumulation_steps and the number
\* of batches of the data loader (one epoch, --fp16 and --gd off)
TrainArgs ==
    [kd_loss : {"kd", "ce"}, n_gpu : {1, 2}, gradient_accumulation_steps : {1, 2},
     batches : 1..MaxSteps]

\* inputs = {..., 'labels': batch[3]}; inputs['kd_loss_type'] = kd_loss
TrainKwArgs(B) ==
    [labels : LabelArgs(B) \ {<<>>}, kd_loss_type : {args.kd_loss}, output_layer : {-1}]

----------------------------------------------------------------------------
(* evaluate() *)

\* the arguments of evaluate(): output_layer (the default, or the last stage as the
\* per-layer evaluation of main() passes it), eval_threshold, args.eval_batch_size and
\* the number of batches of the data loader (one evaluation task)
EvalArgs ==
    [output_layer : {-1, N - 1}, eval_threshold : BOOLEAN,
     eval_batch_size : 1..MaxBatch, batches : 1..MaxSteps]

\* inputs = {..., 'labels': batch[3]}, with inputs['output_layer'] = output_layer when it
\* is >= 0 (the default of forward is -1) and forward's default kd_loss_type
EvalKwArgs(B) ==
    [labels : LabelArgs(B) \ {<<>>}, kd_loss_type : {"kd"},
     output_layer : {eval_args.output_layer}]

----------------------------------------------------------------------------
(* BertForSequenceClassification.forward *)

num_layers_short == N - 1

\* BertForSequenceClassification.num_layers = config.num_hidden_layers
num_layers == N

CaughtExitLayerIgnored(e) == num_layers

\* except EElayerException as e: exit_layer = e.exit_layer
CaughtExitLayer(e) == e.exit_layer

\* the part of forward after self.bert(...) returned or raised EElayerException; kw
\* holds labels, kd_loss_type and output_layer, cls is what self.classifier gives on
\* the final pooled output, kl the raw KL divergences
ForwardTail(kw, cls, kl) ==
    LET early == exc.type = "EElayerException"
        outputs0 == IF early THEN exc.message
                    ELSE <<cls>> \o Tail(EncoderOutputs(hidden_states, all_EElayer_exits))
        exit_layer == IF early THEN CaughtExitLayer(exc) ELSE num_layers
        logits == outputs0[1]
        has_labels == kw.labels # <<>>
        EElayer_exits == outputs0[Len(outputs0)]
        eachlayer_logits_all ==
            IF has_labels THEN [j \in 1..Len(EElayer_exits) |-> EElayer_exits[j][1]]
            ELSE <<>>
        eachlayer_entropy ==
            IF has_labels /\ ~training
            THEN [j \in 1..Len(EElayer_exits) |-> EElayer_exits[j][3]]
            ELSE <<>>
        loss_kd == ATTGTeaKDLoss_forward(logits, eachlayer_logits_all, kw.labels, kl)
        loss == IF num_labels = 1 THEN MSE(logits, kw.labels)
                ELSE CrossEntropy(logits, kw.labels)
        raised1 == IF has_labels /\ kw.kd_loss_type = "kd" THEN loss_kd.raised ELSE "none"
        outputs1 == IF ~has_labels THEN outputs0
                    ELSE IF kw.kd_loss_type = "kd"
                         THEN <<TupleLoss(loss_kd.val)>> \o outputs0
                         ELSE <<TensorLoss(loss)>> \o outputs0
        outputs2 == IF training THEN outputs1
                    ELSE outputs1 \o <<<<entropy(logits), eachlayer_entropy>>, exit_layer>>
        \* eachlayer_logits_all as it is once the loss, if called, has returned
        logits_all == IF has_labels /\ kw.kd_loss_type = "kd" THEN loss_kd.arg
                      ELSE eachlayer_logits_all
        raised2 == IF ~training /\ kw.output_layer >= 0
                      /\ kw.output_layer + 1 > Len(logits_all)
                   THEN "IndexError" ELSE "none"
        outputs3 == IF ~training /\ kw.output_layer >= 0
                    THEN <<outputs2[1], logits_all[kw.output_layer + 1]>>
                             \o SubSeq(outputs2, 3, Len(outputs2))
                    ELSE outputs2
    IN IF raised1 # "none" THEN [raised |-> raised1, val |-> <<>>]
       ELSE IF raised2 # "none" THEN [raised |-> raised2, val |-> <<>>]
       ELSE [raised |-> "none", val |-> outputs3]

BertForSequenceClassification_forward ==
    /\ pc = "tail"
    /\ \E kw \in (IF caller = "train" THEN TrainKwArgs(call.batch)
                  ELSE IF caller = "evaluate" THEN EvalKwArgs(call.batch)
                  ELSE KwArgs(call.batch)) :
       \E cls \in (IF exc.type = "EElayerException" THEN {<<>>} ELSE ClassifierScores(call.batch)) :
       \E kl \in (IF kw.labels # <<>> /\ kw.kd_loss_type = "kd" /\ num_labels # 1
                  THEN KLArgs(Len(all_EElayer_exits)) ELSE {<<>>}) :
          LET r == ForwardTail(kw, cls, kl)
          IN /\ call' = [fn |-> "forward", batch |-> call.batch,
                         thresholds_at_start |-> call.thresholds_at_start,
                         labels |-> kw.labels,
                         kd_loss_type |-> kw.kd_loss_type, output_layer |-> kw.output_layer]
             /\ outputs' = r.val
             /\ exc' = IF r.raised = "none" THEN NoExc ELSE [type |-> r.raised]
             /\ pc' = IF r.raised = "none" THEN "returned" ELSE "raised"
    /\ UNCHANGED <<loss_fct, num_labels, early_exit_entropy, training, hidden_states,
                   i, all_logist, pre_logist, all_EElayer_exits, caller>>
    /\ UNCHANGED trainVars
    /\ UNCHANGED evalVars
    /\ UNCHANGED params

\* the caller takes the result (or the exception); the frames of the pass are gone
Discard ==
    /\ pc \in {"returned", "raised"}
    /\ caller \in {"api", "loss"}
    /\ pc' = "idle"
    /\ call' = NoCall
    /\ hidden_states' = 0
    /\ i' = 0
    /\ all_logist' = <<>>
    /\ pre_logist' = <<>>
    /\ all_EElayer_exits' = <<>>
    /\ exc' = NoExc
    /\ outputs' = <<>>
    /\ UNCHANGED <<loss_fct, num_labels, early_exit_entropy, training, caller>>
    /\ UNCHANGED trainVars
    /\ UNCHANGED evalVars
    /\ UNCHANGED params

\* model.train() and model.eval()
model_train ==
    /\ pc = "idle" /\ caller = "api" /\ ~training
    /\ training' = TRUE
    /\ UNCHANGED <<loss_fct, num_labels, early_exit_entropy, pc, caller>>
    /\ UNCHANGED passVars
    /\ UNCHANGED trainVars
    /\ UNCHANGED evalVars
    /\ UNCHANGED params

model_eval ==
    /\ pc = "idle" /\ caller = "api" /\ training
    /\ training' = FALSE
    /\ UNCHANGED <<loss_fct, num_labels, early_exit_entropy, pc, caller>>
    /\ UNCHANGED passVars
    /\ UNCHANGED trainVars
    /\ UNCHANGED evalVars
    /\ UNCHANGED params

\* train(): the next batch of the epoch: model.train(); outputs = model(**inputs)
train_forward ==
    /\ pc = "idle"
    /\ caller = "train"
    /\ step < args.batches
    /\ training' = TRUE
    /\ \E B \in 1..MaxBatch : ForwardCall([fn |-> "forward", batch |-> B,
                                             thresholds_at_start |-> early_exit_entropy], "train")
    /\ UNCHANGED <<loss_fct, num_labels, early_exit_entropy>>
    /\ UNCHANGED trainVars
    /\ UNCHANGED evalVars
    /\ UNCHANGED params

\* train(), from loss = outputs[0] to global_step += 1: the names ce_loss, kld_loss,
\* full_loss and l_loss are bound only when the loss is a tuple; l_loss is a list
TrainStep(loss, bound) ==
    LET bound1 == bound \/ loss.type = "tuple"
        l_loss_is_list == bound1
    IN IF (args.n_gpu > 1 \/ args.gradient_accumulation_steps > 1) /\ ~bound1
       THEN [raised |-> "UnboundLocalError", bound |-> bound1, backward |-> 0, acc |-> 0]
       ELSE IF args.n_gpu > 1 /\ l_loss_is_list
       THEN [raised |-> "AttributeError", bound |-> bound1, backward |-> 0, acc |-> 0]
       ELSE IF args.gradient_accumulation_steps > 1 /\ l_loss_is_list
       THEN [raised |-> "TypeError", bound |-> bound1, backward |-> 0, acc |-> 0]
       ELSE IF ~bound1
       THEN [raised |-> "UnboundLocalError", bound |-> bound1, backward |-> 0, acc |-> 0]
       ELSE [raised |-> "none", bound |-> bound1, backward |-> 1, acc |-> 1]

train_step ==
    /\ pc = "returned"
    /\ caller = "train"
    /\ LET r == TrainStep(outputs[1], train_locals)
       IN /\ train_locals' = r.bound
          /\ n_backward' = n_backward + r.backward
          /\ n_acc' = n_acc + r.acc
          /\ exc' = IF r.raised = "none" THEN NoExc ELSE [type |-> r.raised]
          /\ pc' = IF r.raised = "none" THEN "idle" ELSE "raised"
          /\ global_step' = IF r.raised = "none"
                               /\ (step + 1) % args.gradient_accumulation_steps = 0
                            THEN global_step + 1 ELSE global_step
          /\ step' = IF r.raised = "none" THEN step + 1 ELSE step
          \* the outputs of a finished step are dropped with the loop's next turn
          /\ IF r.raised = "none"
             THEN /\ call' = NoCall
                  /\ hidden_states' = 0
                  /\ i' = 0
                  /\ all_logist' = <<>>
                  /\ pre_logist' = <<>>
                  /\ all_EElayer_exits' = <<>>
                  /\ outputs' = <<>>
             ELSE UNCHANGED <<call, hidden_states, i, all_logist, pre_logist,
                              all_EElayer_exits, outputs>>
    /\ UNCHANGED <<loss_fct, num_labels, early_exit_entropy, training, caller, args>>
    /\ UNCHANGED evalVars
    /\ UNCHANGED params

\* train(): after the last batch, return global_step, tr_loss / global_step
train_return ==
    /\ pc = "idle"
    /\ caller = "train"
    /\ step = args.batches
    /\ pc' = IF global_step = 0 THEN "raised" ELSE "trained"
    /\ exc' = IF global_step = 0 THEN [type |-> "ZeroDivisionError"] ELSE NoExc
    /\ UNCHANGED <<loss_fct, num_labels, early_exit_entropy, training, call, hidden_states, i,
                   all_logist, pre_logist, all_EElayer_exits, outputs, caller>>
    /\ UNCHANGED trainVars
    /\ UNCHANGED evalVars
    /\ UNCHANGED params

ExitLayerCounterFromZero == [l \in 0..(num_layers - 1) |-> 0]

\* exit_layer_counter = {(i + 1): 0 for i in range(model.num_layers)}
ExitLayerCounter == [l \in 1..num_layers |-> 0]

\* sum([l * c for l, c in exit_layer_counter.items()])
ActualCost(counter) == SumSeq([l \in 1..Len(counter) |-> l * counter[l]])

\* evaluate(): the next batch of the data loader: model.eval(); outputs = model(**inputs)
evaluate_forward ==
    /\ pc = "idle"
    /\ caller = "evaluate"
    /\ nb_eval_steps < eval_args.batches
    /\ training' = FALSE
    /\ ForwardCall([fn |-> "forward", batch |-> eval_args.eval_batch_size,
                    thresholds_at_start |-> early_exit_entropy], "evaluate")
    /\ UNCHANGED <<loss_fct, num_labels, early_exit_entropy>>
    /\ UNCHANGED trainVars
    /\ UNCHANGED evalVars
    /\ UNCHANGED params

\* evaluate(), from `if eval_threshold:` to the end of the loop body: the counter of
\* the exit index outputs[-1] goes up by one (a key that the counter lacks is a KeyError),
\* the loss and the scores are taken from outputs[:2], nb_eval_steps += 1.  What the pass
\* left in the encoder stays until the next call of forward.
evaluate_step ==
    /\ pc = "returned"
    /\ caller = "evaluate"
    /\ LET key == outputs[Len(outputs)]
           raised == IF eval_args.eval_threshold /\ key \notin DOMAIN exit_layer_counter
                     THEN "KeyError" ELSE "none"
       IN /\ exit_layer_counter' =
                 IF eval_args.eval_threshold /\ raised = "none"
                 THEN [exit_layer_counter EXCEPT ![key] = @ + 1]
                 ELSE exit_layer_counter
          /\ nb_eval_steps' = IF raised = "none" THEN nb_eval_steps + 1 ELSE nb_eval_steps
          /\ exc' = IF raised = "none" THEN NoExc ELSE [type |-> raised]
          /\ pc' = IF raised = "none" THEN "idle" ELSE "raised"
    /\ UNCHANGED <<loss_fct, num_labels, early_exit_entropy, training, call, hidden_states,
                   i, all_logist, pre_logist, all_EElayer_exits, outputs, caller>>
    /\ UNCHANGED <<eval_args, eval_result>>
    /\ UNCHANGED trainVars
    /\ UNCHANGED params

\* evaluate(), after the loop: actual_cost and full_cost are bound only under
\* `if eval_threshold:`, and `Expectedsaving = actual_cost / full_cost` reads them on
\* every path before the results are written
evaluate_return ==
    /\ pc = "idle"
    /\ caller = "evaluate"
    /\ nb_eval_steps = eval_args.batches
    /\ IF eval_args.eval_threshold
       THEN /\ eval_result' = [actual_cost |-> ActualCost(exit_layer_counter),
                               full_cost |-> eval_args.batches * num_layers]
            /\ exc' = NoExc
            /\ pc' = "evaluated"
       ELSE /\ eval_result' = eval_result
            /\ exc' = [type |-> "UnboundLocalError"]
            /\ pc' = "raised"
    /\ UNCHANGED <<loss_fct, num_labels, early_exit_entropy, training, call, hidden_states,
                   i, all_logist, pre_logist, all_EElayer_exits, outputs, caller>>
    /\ UNCHANGED <<eval_args, nb_eval_steps, exit_layer_counter>>
    /\ UNCHANGED trainVars
    /\ UNCHANGED params

----------------------------------------------------------------------------
Init ==
    /\ loss_fct = [gamma |-> gamma, T |-> T]
    /\ num_labels \in {1, 2}
    /\ early_exit_entropy = InitThresholds
    /\ training = TRUE
    /\ pc = "idle"
    /\ call = NoCall
    /\ hidden_states = 0
    /\ i = 0
    /\ all_logist = <<>>
    /\ pre_logist = <<>>
    /\ all_EElayer_exits = <<>>
    /\ exc = NoExc
    /\ outputs = <<>>
    /\ caller = "api"
    /\ args = <<>>
    /\ step = 0
    /\ train_locals = FALSE
    /\ n_backward = 0
    /\ n_acc = 0
    /\ global_step = 0
    /\ params = InitParams
    /\ eval_args = <<>>
    /\ nb_eval_steps = 0
    /\ exit_layer_counter = <<>>
    /\ eval_result = <<>>

\* main() with --do_train: the model is built, set_early_exit_entropy is given
\* args.early_exit_entropy (its default, -1), and train() starts with its counters at zero
InitTrain ==
    /\ loss_fct = [gamma |-> gamma, T |-> T]
    /\ num_labels \in {1, 2}
    /\ early_exit_entropy = SetScalar(InitThresholds, -1 * FxOne).val
    /\ training = TRUE
    /\ pc = "idle"
    /\ call = NoCall
    /\ hidden_states = 0
    /\ i = 0
    /\ all_logist = <<>>
    /\ pre_logist = <<>>
    /\ all_EElayer_exits = <<>>
    /\ exc = NoExc
    /\ outputs = <<>>
    /\ caller = "train"
    /\ args \in TrainArgs
    /\ step = 0
    /\ train_locals = FALSE
    /\ n_backward = 0
    /\ n_acc = 0
    /\ global_step = 0
    /\ params = InitParams
    /\ eval_args = <<>>
    /\ nb_eval_steps = 0
    /\ exit_layer_counter = <<>>
    /\ eval_result = <<>>

\* an ATTGTeaKDLoss built with a gamma of 0, 0.1 or 1 and called on its own
InitLoss ==
    /\ loss_fct \in [gamma : {0, gamma, FxOne}, T : {T}]
    /\ num_labels \in {1, 2}
    /\ early_exit_entropy = InitThresholds
    /\ training = TRUE
    /\ pc = "idle"
    /\ call = NoCall
    /\ hidden_states = 0
    /\ i = 0
    /\ all_logist = <<>>
    /\ pre_logist = <<>>
    /\ all_EElayer_exits = <<>>
    /\ exc = NoExc
    /\ outputs = <<>>
    /\ caller = "loss"
    /\ args = <<>>
    /\ step = 0
    /\ train_locals = FALSE
    /\ n_backward = 0
    /\ n_acc = 0
    /\ global_step = 0
    /\ params = InitParams
    /\ eval_args = <<>>
    /\ nb_eval_steps = 0
    /\ exit_layer_counter = <<>>
    /\ eval_result = <<>>

Next ==
    \/ \E x \in ScalarArgs \cup SeqArgs : set_early_exit_entropy(x)
    \/ model_train
    \/ model_eval
    \/ Forward
    \/ BertEncoder_forward
    \/ BertForSequenceClassification_forward
    \/ Discard

Spec == Init /\ [][Next]_vars

NextTrain ==
    \/ train_forward
    \/ BertEncoder_forward
    \/ BertForSequenceClassification_forward
    \/ train_step
    \/ train_return

SpecTrain == InitTrain /\ [][NextTrain]_vars

----------------------------------------------------------------------------
\* a classification model in eval mode whose thresholds are the constructor's or a
\* sequence given to set_early_exit_entropy
InitConc ==
    /\ loss_fct = [gamma |-> gamma, T |-> T]
    /\ num_labels = 2
    /\ early_exit_entropy \in {InitThresholds} \cup SeqArgs
    /\ training = FALSE
    /\ pc = "idle"
    /\ call = NoCall
    /\ hidden_states = 0
    /\ i = 0
    /\ all_logist = <<>>
    /\ pre_logist = <<>>
    /\ all_EElayer_exits = <<>>
    /\ exc = NoExc
    /\ outputs = <<>>
    /\ caller = "api"
    /\ args = <<>>
    /\ step = 0
    /\ train_locals = FALSE
    /\ n_backward = 0
    /\ n_acc = 0
    /\ global_step = 0
    /\ params = InitParams
    /\ eval_args = <<>>
    /\ nb_eval_steps = 0
    /\ exit_layer_counter = <<>>
    /\ eval_result = <<>>

\* one inference pass, with a caller that reconfigures the thresholds while it is in
\* flight
NextConc ==
    \/ Forward
    \/ BertEncoder_forward
    \/ BertForSequenceClassification_forward
    \/ set_early_exit_entropy_during_pass
    \/ caller_mutates_list

SpecConc == InitConc /\ [][NextConc]_vars

NextLoss ==
    \/ ATTGTeaKDLoss_call
    \/ Discard

SpecLoss == InitLoss /\ [][NextLoss]_vars

----------------------------------------------------------------------------
\* main() with --do_eval: the model is loaded, set_early_exit_entropy is given
\* args.early_exit_entropy, and evaluate() starts with its counters at zero
InitEval ==
    /\ loss_fct = [gamma |-> gamma, T |-> T]
    /\ num_labels \in {1, 2}
    /\ early_exit_entropy \in {SetScalar(InitThresholds, t).val : t \in ThresholdVals}
    /\ training = TRUE
    /\ pc = "idle"
    /\ call = NoCall
    /\ hidden_states = 0
    /\ i = 0
    /\ all_logist = <<>>
    /\ pre_logist = <<>>
    /\ all_EElayer_exits = <<>>
    /\ exc = NoExc
    /\ outputs = <<>>
    /\ caller = "evaluate"
    /\ args = <<>>
    /\ step = 0
    /\ train_locals = FALSE
    /\ n_backward = 0
    /\ n_acc = 0
    /\ global_step = 0
    /\ params = InitParams
    /\ eval_args \in EvalArgs
    /\ nb_eval_steps = 0
    /\ exit_layer_counter = ExitLayerCounter
    /\ eval_result = <<>>

NextEval ==
    \/ evaluate_forward
    \/ BertEncoder_forward
    \/ BertForSequenceClassification_forward
    \/ evaluate_step
    \/ evaluate_return

SpecEval == InitEval /\ [][NextEval]_vars

----------------------------------------------------------------------------
\* the setup of main(): a model whose parameters come from a checkpoint or from
\* init_weights is given its thresholds and has the pooler copied into the exit heads
InitSetup ==
    /\ loss_fct = [gamma |-> gamma, T |-> T]
    /\ num_labels = 2
    /\ early_exit_entropy = InitThresholds
    /\ training = TRUE
    /\ pc = "idle"
    /\ call = NoCall
    /\ hidden_states = 0
    /\ i = 0
    /\ all_logist = <<>>
    /\ pre_logist = <<>>
    /\ all_EElayer_exits = <<>>
    /\ exc = NoExc
    /\ outputs = <<>>
    /\ caller = "api"
    /\ args = <<>>
    /\ step = 0
    /\ train_locals = FALSE
    /\ n_backward = 0
    /\ n_acc = 0
    /\ global_step = 0
    /\ params \in ParamStates
    /\ eval_args = <<>>
    /\ nb_eval_steps = 0
    /\ exit_layer_counter = <<>>
    /\ eval_result = <<>>

NextSetup ==
    \/ \E x \in ScalarArgs \cup SeqArgs : set_early_exit_entropy(x)
    \/ init_early_exit_pooler
    \/ Discard

SpecSetup == InitSetup /\ [][NextSetup]_vars

----------------------------------------------------------------------------
(* Properties *)

\* a forward call is under way or has just ended
InForward == pc \in {"encoder", "tail", "returned", "raised"} /\ call.fn = "forward"

\* the last element of what forward returned: in inference, the exit index
Last(t) == t[Len(t)]

\* stage j (counted from 1) of this inference pass recorded one confidence that is
\* strictly below the threshold of that stage (nan is not, -inf is)
Confident(j) ==
    LET conf == all_EElayer_exits[j][3]
    IN /\ Len(conf) = 1
       /\ j <= Len(early_exit_entropy.v)
       /\ \/ conf[1].k = "-inf"
          \/ conf[1].k = "fin" /\ conf[1].v < early_exit_entropy.v[j]

\* C1: in inference the stages run in order 0, 1, ... and the pass ends with the early
\* exit carrying index j at the first stage j (counted from 1) whose confidence is
\* strictly below its threshold: a confident stage is the last one executed and its
\* index is the exit index, and an early exit happens only at a confident stage.
C1_ExitAtFirstConfidentStage ==
    (InForward /\ ~training) =>
        /\ \A j \in 1..Len(all_EElayer_exits) :
              /\ all_EElayer_exits[j][2].stage = j - 1
              /\ Confident(j) =>
                    /\ j = Len(all_EElayer_exits)
                    /\ i = j
                    /\ hidden_states = j
                    /\ pc # "encoder"
                    /\ pc = "tail" => (exc.type = "EElayerException" /\ exc.exit_layer = j)
                    /\ pc = "returned" => Last(outputs) = j
        /\ (pc = "tail" /\ exc.type = "EElayerException") =>
              /\ exc.exit_layer = Len(all_EElayer_exits)
              /\ Confident(exc.exit_layer)

\* an early exit at the second stage or later under a threshold that a stage could
\* also have met earlier
C1_Witness ==
    /\ InForward /\ ~training /\ pc = "tail"
    /\ exc.type = "EElayerException"
    /\ exc.exit_layer >= 2
    /\ early_exit_entropy.v[1] = early_exit_entropy.v[exc.exit_layer]
    /\ early_exit_entropy.v[1] > 0

\* C2: in training mode no pass ends early, whatever the thresholds and scores: no
\* exit signal and no exit test, all N stages and exit heads run, and the exit list
\* that is returned has N entries.
C2_TrainingRunsAllStages ==
    (InForward /\ training) =>
        /\ exc.type \notin {"EElayerException", "RuntimeError"}
        /\ pc = "encoder" => (i < N /\ exc.type = "none")
        /\ pc \in {"tail", "returned", "raised"} =>
              /\ i = N
              /\ hidden_states = N
              /\ Len(all_logist) = N
              /\ Len(all_EElayer_exits) = N
        /\ pc = "tail" => exc.type = "none"
        /\ pc = "returned" => Len(Last(outputs)) = N

\* a training pass that returned under thresholds that make every inference pass
\* leave at stage 0, for a batch of two
C2_Witness ==
    /\ InForward /\ training /\ pc = "returned"
    /\ call.batch = 2
    /\ Len(early_exit_entropy.v) = N
    /\ \A j \in 1..N : early_exit_entropy.v[j] = FxOne
    /\ all_logist[1][1][1] = 2 * FxOne

\* C3: an inference pass in which no stage triggers an exit ends completed, with the
\* exit index N; whatever the outcome, the reported exit index lies in 1..N.
C3_ExitIndexRange ==
    (InForward /\ ~training) =>
        /\ (pc = "tail" /\ exc.type = "none") => (i = N /\ Len(all_EElayer_exits) = N)
        /\ (pc = "tail" /\ exc.type = "EElayerException") => exc.exit_layer \in 1..N
        /\ pc = "returned" =>
              /\ Last(outputs) \in 1..N
              /\ (\A j \in 1..Len(all_EElayer_exits) : ~Confident(j)) =>
                    (Last(outputs) = N /\ Len(all_EElayer_exits) = N)

\* a completed inference pass under thresholds at log(C) that no stage met
C3_Witness ==
    /\ InForward /\ ~training /\ pc = "returned"
    /\ Last(outputs) = N
    /\ \A j \in 1..Len(all_EElayer_exits) : ~Confident(j)
    /\ Len(early_exit_entropy.v) = N
    /\ \A j \in 1..N : early_exit_entropy.v[j] = LogC

\* every stage has a threshold, and it is the sentinel -1 or lower
AllSentinel ==
    /\ Len(early_exit_entropy.v) = N
    /\ \A j \in 1..N : early_exit_entropy.v[j] <= -FxOne

\* C4: with every threshold at the negative sentinel an inference pass never exits
\* early, for any input: no exit signal is raised, and a pass that returns has run all
\* N stages and reports the exit index N.
C4_SentinelNeverExits ==
    (InForward /\ ~training /\ AllSentinel) =>
        /\ exc.type # "EElayerException"
        /\ pc = "tail" => i = N
        /\ pc = "returned" =>
              /\ Last(outputs) = N
              /\ hidden_states = N
              /\ Len(all_EElayer_exits) = N

\* every threshold is above log(C), the largest entropy
AllAboveLogC ==
    /\ Len(early_exit_entropy.v) >= 1
    /\ \A j \in 1..Len(early_exit_entropy.v) : early_exit_entropy.v[j] > LogC

\* C5: with every threshold above log(C), an inference pass whose stage-0 confidence
\* is one finite value exits at stage 0: only stage 0 runs and the exit index is 1.
C5_AboveLogCExitsAtStage0 ==
    (/\ InForward /\ ~training /\ AllAboveLogC
     /\ Len(all_EElayer_exits) >= 1
     /\ Len(all_EElayer_exits[1][3]) = 1
     /\ all_EElayer_exits[1][3][1].k = "fin") =>
        /\ i = 1
        /\ hidden_states = 1
        /\ Len(all_EElayer_exits) = 1
        /\ pc # "encoder"
        /\ pc = "tail" => (exc.type = "EElayerException" /\ exc.exit_layer = 1)
        /\ pc = "returned" => Last(outputs) = 1

\* such a pass returned with exit index 1 from uniform scores, whose entropy is log(C)
C5_Witness ==
    /\ InForward /\ ~training /\ AllAboveLogC /\ pc = "returned"
    /\ Last(outputs) = 1
    /\ num_labels = 2
    /\ all_logist[1][1] = <<0, 0>>
    /\ all_EElayer_exits[1][3][1].v = LogC

\* the sum over the exit heads 0..j-1 of this pass of the raw score of example b, class c
RawSum(j, b, c) == SumSeq([m \in 1..j |-> all_logist[m][b][c]])

\* C6: after each stage of a pass, in training and in inference, the running ensemble
\* score recorded for the stage is the elementwise arithmetic mean of the raw scores of
\* the exit heads run so far (to the precision of the arithmetic: r is the mean of j
\* scores iff r*j <= sum < (r+1)*j); after stage 0 it is exit head 0's score vector.
C6_RunningEnsembleIsMean ==
    InForward =>
        /\ Len(all_logist) = Len(all_EElayer_exits)
        /\ \A j \in 1..Len(all_EElayer_exits) :
              LET score == all_EElayer_exits[j][1]
              IN /\ DOMAIN score = DOMAIN all_logist[j]
                 /\ \A b \in DOMAIN score :
                       /\ DOMAIN score[b] = DOMAIN all_logist[j][b]
                       /\ \A c \in DOMAIN score[b] :
                             /\ score[b][c] * j <= RawSum(j, b, c)
                             /\ RawSum(j, b, c) < (score[b][c] + 1) * j
        /\ Len(all_EElayer_exits) >= 1 => all_EElayer_exits[1][1] = all_logist[1]

\* all N stages ran with raw scores that differ from stage to stage, so that the mean
\* is none of them
C6_Witness ==
    /\ InForward /\ pc = "tail"
    /\ Len(all_EElayer_exits) = N
    /\ all_logist[1][1][1] = 2 * FxOne
    /\ all_logist[2][1][1] = 0
    /\ all_EElayer_exits[2][1][1][1] = FxOne
    /\ all_EElayer_exits[2][1] # all_logist[2]

\* C7: the package of an early exit at stage k (counted from 1) carries the running
\* ensemble score of stage k, the pooled feature of stage k and the list of the k
\* (score, feature, confidence) triples of the executed stages in stage order, whose
\* last triple holds the package's score; the exit index of the package is k.
C7_ExitPackageContents ==
    (InForward /\ pc = "tail" /\ exc.type = "EElayerException") =>
        LET k == exc.exit_layer
            message == exc.message
        IN /\ k = i
           /\ Len(message) = 3
           /\ Len(message[3]) = k
           /\ \A j \in 1..Len(message[3]) :
                 /\ Len(message[3][j]) = 3
                 /\ message[3][j][2].stage = j - 1
                 /\ message[3][j][2].hidden = j
                 /\ message[3][j] = all_EElayer_exits[j]
           /\ Len(message[3]) = k =>
                 /\ message[1] = message[3][k][1]
                 /\ message[2] = message[3][k][2]
           /\ message[2].stage = k - 1
           /\ \A b \in DOMAIN message[1] : \A c \in DOMAIN message[1][b] :
                 /\ message[1][b][c] * k <= RawSum(k, b, c)
                 /\ RawSum(k, b, c) < (message[1][b][c] + 1) * k

\* the package of an early exit at the last stage: N triples
C7_Witness ==
    /\ InForward /\ pc = "tail"
    /\ exc.type = "EElayerException"
    /\ exc.exit_layer = N
    /\ Len(exc.message[3]) = N
    /\ exc.message[1] = all_EElayer_exits[N][1]

\* C8: every inference call of BertForSequenceClassification.forward that returns gives
\* a metadata bundle whose list of per-stage confidences has one entry per executed
\* stage (as many as the exit index), and the exit index as last element, with labels
\* and without.
C8_MetadataListLength ==
    (InForward /\ ~training /\ pc = "returned") =>
        /\ Last(outputs) \in 1..N
        /\ Len(outputs[Len(outputs) - 1][2]) = Last(outputs)

\* the last call of set_early_exit_entropy was given a scalar
ScalarGiven == call.x.kind \in {"float", "int"}

\* C9: set_early_exit_entropy accepts a scalar and a sequence of N scalars: after a
\* call with a scalar x the thresholds are N entries equal to x, after a call with a
\* sequence of N scalars they are its entries, and so there is a threshold for each
\* of the N stages.  Stated for an encoder whose thresholds had N entries before the
\* call (the scalar branch keeps their number), which leaves out the calls that follow
\* a sequence of another length.
C9_SetThresholds ==
    (pc \in {"returned", "raised"} /\ call.fn = "set_early_exit_entropy"
        /\ (ScalarGiven \/ Len(call.x.v) = N)
        /\ Len(early_exit_entropy.v) = N) =>
        /\ pc = "returned"
        /\ Len(early_exit_entropy.v) = N
        /\ \A j \in 1..Len(early_exit_entropy.v) :
              early_exit_entropy.v[j] = IF ScalarGiven THEN call.x.v[1] ELSE call.x.v[j]

\* C10: both loss modes are usable as training objectives: with kd_loss 'kd' and with
\* any other value a training step of train() on a classification model (one GPU, no
\* gradient accumulation) completes; none raises.
C10_BothLossModesTrain ==
    (caller = "train" /\ num_labels > 1 /\ args.n_gpu = 1
        /\ args.gradient_accumulation_steps = 1) =>
        pc # "raised"

\* a call of the loss on its own has returned (which it does only for C > 1)
LossReturned == pc = "returned" /\ call.fn = "loss_fct"

\* the sum over the stages 0..k-1 of (stage index + 1) times the stage's entry of l
DepthWeightedSum(l) == SumSeq([j \in 1..Len(l) |-> j * l[j]])

\* C11: in ATTGTeaKDLoss.forward with C > 1 and k score vectors, the task loss and the
\* distillation loss of stage i enter the totals with weight i+1 (stage 0 with weight
\* 1), the normalizer total_weights is the sum of the weights, k(k+1)/2, and the
\* weights do not decrease with the stage index.
C11_StageWeights ==
    LossReturned =>
        LET k == Len(call.eachlayer_logits_all)
            frame == call.locals
        IN /\ Len(frame.loss_ce) = k
           /\ Len(frame.loss_kld) = k
           /\ 2 * frame.total_weights = k * (k + 1)
           /\ frame.total_weights = SumSeq([j \in 1..k |-> StageWeight(j - 1)])
           /\ frame.total_loss_ce = DepthWeightedSum(frame.loss_ce)
           /\ frame.total_loss_kd = DepthWeightedSum(frame.loss_kld)
           /\ \A j \in 1..(k - 1) : StageWeight(j - 1) <= StageWeight(j)

\* a call with N score vectors whose stages all have a task and a distillation loss
C11_Witness ==
    /\ LossReturned
    /\ Len(call.eachlayer_logits_all) = N
    /\ \A j \in 1..N : call.locals.loss_ce[j] > 0 /\ call.locals.loss_kld[j] > 0
    /\ call.locals.total_loss_ce > call.locals.loss_ce[1] + call.locals.loss_ce[N]

\* C12: the per-stage loss lists that ATTGTeaKDLoss.forward returns hold for every
\* stage, stage 0 included, the stage's own task (distillation) loss divided by
\* total_weights; so the depth-weighted sum of a returned list is the returned task
\* (distillation) loss, up to the rounding of the divisions.
C12_PerStageLists ==
    LossReturned =>
        LET frame == call.locals
            multi_loss_kd == outputs[4]
            multi_loss_ce == outputs[5]
        IN /\ Len(multi_loss_ce) = Len(frame.loss_ce)
           /\ Len(multi_loss_kd) = Len(frame.loss_kld)
           /\ \A j \in 1..Len(multi_loss_ce) :
                 multi_loss_ce[j] = frame.loss_ce[j] \div frame.total_weights
           /\ \A j \in 1..Len(multi_loss_kd) :
                 multi_loss_kd[j] = frame.loss_kld[j] \div frame.total_weights
           /\ DepthWeightedSum(multi_loss_ce) <= outputs[3]
           /\ outputs[3] <= DepthWeightedSum(multi_loss_ce) + frame.total_weights
           /\ DepthWeightedSum(multi_loss_kd) <= outputs[2]
           /\ outputs[2] <= DepthWeightedSum(multi_loss_kd) + frame.total_weights

\* C13: the aggregate loss that ATTGTeaKDLoss.forward returns is the returned
\* distillation loss plus the returned task loss; with gamma = 0 the distillation loss
\* is zero and the aggregate is the task loss, with gamma = 1 the task loss is zero and
\* the aggregate is the distillation loss.
C13_AggregateLoss ==
    LossReturned =>
        /\ Len(outputs) = 5
        /\ outputs[1] = outputs[2] + outputs[3]
        /\ loss_fct.gamma = 0 => (outputs[2] = 0 /\ outputs[1] = outputs[3])
        /\ loss_fct.gamma = FxOne => (outputs[3] = 0 /\ outputs[1] = outputs[2])

\* a loss built with gamma = 1 called on uniform scores, whose cross-entropy is not
\* zero, with a KL divergence that is not zero
C13_Witness ==
    /\ LossReturned
    /\ loss_fct.gamma = FxOne
    /\ call.outputs[1] = <<0, 0>>
    /\ call.kl[1] > 0
    /\ outputs[2] > 0

\* C14: for a regression task (C = 1) ATTGTeaKDLoss.forward completes and returns a
\* loss tuple with a defined aggregate loss (a depth-weighted MSE task loss and an MSE
\* soft-target term).
C14_RegressionLoss ==
    (pc \in {"returned", "raised"} /\ call.fn = "loss_fct" /\ num_labels = 1) =>
        /\ pc = "returned"
        /\ Len(outputs) = 5

\* no stage of the pass recorded the confidence -inf
NoMinusInf ==
    \A j \in 1..Len(all_EElayer_exits) :
        \A b \in DOMAIN all_EElayer_exits[j][3] : all_EElayer_exits[j][3][b].k # "-inf"

\* C15: for a regression task (C = 1) an inference pass never exits early, whatever
\* the thresholds: no exit signal, all N stages run and the exit index is N.  Stated
\* for passes whose confidences are finite or nan.
C15_RegressionNeverExits ==
    (InForward /\ ~training /\ num_labels = 1 /\ NoMinusInf) =>
        /\ exc.type # "EElayerException"
        /\ pc = "tail" => i = N
        /\ pc = "returned" => Last(outputs) = N

\* C16: a stage whose confidence is not finite (nan or infinite) does not exit, for
\* any threshold; a pass whose confidences are all non-finite runs all N stages.
C16_NonFiniteNeverExits ==
    (InForward /\ ~training) =>
        /\ \A j \in 1..Len(all_EElayer_exits) :
              LET conf == all_EElayer_exits[j][3]
              IN (Len(conf) = 1 /\ conf[1].k # "fin") =>
                    ~(exc.type = "EElayerException" /\ exc.exit_layer = j)
        /\ (/\ pc \in {"tail", "returned"}
            /\ \A j \in 1..Len(all_EElayer_exits) :
                  \A b \in DOMAIN all_EElayer_exits[j][3] :
                      all_EElayer_exits[j][3][b].k # "fin") => i = N

\* C17: BertForSequenceClassification.forward turns the early-exit signal, and nothing
\* else, into a result: the result of a pass that exited early carries the exit index of
\* the signal and (with output_layer < 0) the score of its package; a failure raised in
\* the staged pass reaches the caller unchanged and without a result; the early-exit
\* signal never reaches the caller.
C17_OnlyExitSignalConverted ==
    [][/\ (InForward /\ pc = "tail" /\ exc.type = "EElayerException" /\ pc' = "returned") =>
              /\ exc'.type = "none"
              /\ ~training => Last(outputs') = exc.exit_layer
              /\ call'.output_layer < 0 =>
                    outputs'[IF call'.labels = <<>> THEN 1 ELSE 2] = exc.message[1]
       /\ (InForward /\ pc = "encoder" /\ pc' = "raised") =>
              /\ exc'.type \in {"RuntimeError", "IndexError"}
              /\ outputs' = <<>>
       /\ (InForward /\ pc = "raised") =>
              (exc' = exc /\ outputs' = outputs) \/ pc' = "idle"
       /\ pc' = "raised" => (exc'.type # "EElayerException" /\ outputs' = <<>>)
       /\ pc' = "returned" => exc'.type = "none"]_vars

\* an inference pass that exited early at stage 2 or later has returned its result
C17_Witness ==
    /\ InForward /\ ~training /\ pc = "returned"
    /\ Last(outputs) >= 2
    /\ Last(outputs) < N
    /\ call.labels = <<>>
    /\ outputs[1] = all_EElayer_exits[Last(outputs)][1]

\* C18: a sequence of thresholds whose length differs from N is rejected by
\* set_early_exit_entropy with an error; it is never accepted.
C18_LengthMismatchRejected ==
    (/\ pc \in {"returned", "raised"} /\ call.fn = "set_early_exit_entropy"
     /\ ~ScalarGiven /\ Len(call.x.v) # N) =>
        /\ pc = "raised"
        /\ Len(early_exit_entropy.v) = N

\* C19: for an inference batch of any size the exit decision of a stage is one decision
\* for the whole batch, so a pass over a batch of several examples ends as an early
\* exit of all its examples or as completed for all of them: the staged pass does not
\* fail.
C19_BatchWideDecision ==
    (InForward /\ ~training /\ call.batch > 1 /\ Len(early_exit_entropy.v) = N) =>
        /\ exc.type # "RuntimeError"
        /\ pc = "tail" => (i = N \/ exc.type = "EElayerException")

\* C20 as claimed: the thresholds are fixed for the duration of a pass: every stage
\* decision of an inference pass is the one that the thresholds bound when the pass
\* started give, also when set_early_exit_entropy or a write to a list given to it
\* earlier comes between two stages of the pass.
C20_DecisionsUseStartThresholds ==
    (InForward /\ ~training /\ pc \in {"encoder", "tail"}) =>
        \A j \in 1..Len(all_EElayer_exits) :
            LET conf == all_EElayer_exits[j][3]
                start == call.thresholds_at_start
            IN (Len(conf) = 1 /\ j <= Len(start.v)) =>
                  (Less(conf[1], start.v[j])
                      <=> (exc.type = "EElayerException" /\ exc.exit_layer = j))

\* C20: BertEncoder.forward and the tail of the model's forward never write
\* early_exit_entropy, and the exit test of each stage reads the entry of that stage as
\* it is at that moment: a reconfiguration that comes between two stages does not touch
\* the frames of the pass, and the later stages decide by the new values.
C20_StagesReadCurrentThresholds ==
    [][/\ (pc = "encoder" /\ i' = i + 1) =>
              /\ early_exit_entropy' = early_exit_entropy
              /\ LET conf == all_EElayer_exits'[i + 1][3]
                 IN (~training /\ Len(conf) = 1 /\ i + 1 <= Len(early_exit_entropy.v)) =>
                       (exc'.type = "EElayerException"
                           <=> Less(conf[1], early_exit_entropy.v[i + 1]))
       /\ pc = "tail" => early_exit_entropy' = early_exit_entropy
       /\ (pc = "encoder" /\ early_exit_entropy' # early_exit_entropy) =>
              /\ pc' = pc
              /\ <<call, hidden_states, i, all_logist, pre_logist, all_EElayer_exits,
                   exc, outputs>>' =
                 <<call, hidden_states, i, all_logist, pre_logist, all_EElayer_exits,
                   exc, outputs>>]_vars

\* a pass exited early at a stage whose threshold was raised while the pass was in
\* flight; by the thresholds of its start it would not have exited there
C20_Witness ==
    /\ InForward /\ ~training /\ pc = "tail"
    /\ exc.type = "EElayerException"
    /\ exc.exit_layer >= 2
    /\ early_exit_entropy # call.thresholds_at_start
    /\ Len(call.thresholds_at_start.v) = N
    /\ ~Less(all_EElayer_exits[exc.exit_layer][3][1],
             call.thresholds_at_start.v[exc.exit_layer])

\* C21: within one pass exit head 0 classifies from its pooled representation alone and
\* exit head j > 0 is given exactly the raw score vector that exit head j-1 produced in
\* the same pass: not the running ensemble score, not the score of an earlier stage or
\* of an earlier pass.
C21_CascadeOrdering ==
    InForward =>
        /\ \A j \in 1..Len(all_EElayer_exits) :
              LET feature == all_EElayer_exits[j][2]
              IN /\ feature.stage = j - 1
                 /\ feature.pre = IF j = 1 THEN <<>> ELSE all_logist[j - 1]
        /\ pc = "encoder" => pre_logist = IF i = 0 THEN <<>> ELSE all_logist[i]

\* the third exit head ran on the raw score of the second, which differs from the
\* running ensemble score of the second stage and from the raw score of the first
C21_Witness ==
    /\ InForward
    /\ Len(all_EElayer_exits) >= 3
    /\ all_EElayer_exits[3][2].pre = all_logist[2]
    /\ all_logist[2] # all_EElayer_exits[2][1]
    /\ all_logist[2] # all_logist[1]

\* C22: the backbone stages are called in the order 0, 1, 2, ..., each at most once per
\* pass, and exit head i runs after backbone stage i and before backbone stage i+1: every
\* step of the staged pass applies the one next backbone layer and then the exit head
\* of the same index on its output and leaves the record of the earlier stages alone.
\* The executed stages are a prefix 0..k-1: k = N in training mode and when no exit
\* fires, k = the exit index on an early exit.
C22_StagesInOrder ==
    [][/\ (InForward /\ pc = "encoder") =>
              /\ i < N
              /\ hidden_states = i
              /\ Len(all_EElayer_exits) = i
              /\ i' = i + 1
              /\ hidden_states' = hidden_states + 1
              /\ Len(all_EElayer_exits') = i + 1
              /\ all_EElayer_exits'[i + 1][2].stage = i
              /\ all_EElayer_exits'[i + 1][2].hidden = i + 1
              /\ SubSeq(all_EElayer_exits', 1, i) = all_EElayer_exits
              /\ pc' = "tail" =>
                    i' = IF exc'.type = "EElayerException" THEN exc'.exit_layer ELSE N
              /\ (training /\ pc' # "encoder") => (pc' = "tail" /\ i' = N)
       /\ (InForward /\ pc = "tail") =>
              /\ hidden_states' = hidden_states
              /\ all_EElayer_exits' = all_EElayer_exits
              /\ (pc' = "returned" /\ ~training) => Last(outputs') = hidden_states]_vars

\* an inference pass that exited early at the second stage has returned: the stages 0
\* and 1 ran, each on one more backbone layer than the one before
C22_Witness ==
    /\ InForward /\ ~training /\ pc = "returned"
    /\ Last(outputs) = 2
    /\ hidden_states = 2
    /\ all_EElayer_exits[1][2].hidden = 1
    /\ all_EElayer_exits[2][2].hidden = 2

\* C24: init_early_exit_pooler copies the parameters of the one source pooler into the
\* pooler of every one of the N exit heads: afterwards each head's pooler parameters
\* equal the source's, while the source pooler, the classifier parameters of the heads
\* and the thresholds are as before; applied to a model it was applied to already, it
\* changes nothing.
C24_PoolerCopy ==
    [][(pc = "idle" /\ call'.fn = "init_early_exit_pooler") =>
          /\ pc' = "returned"
          /\ params'.pooler = params.pooler
          /\ \A j \in 1..N :
                /\ params'.EElayer[j].pooler = params.pooler
                /\ params'.EElayer[j].classifier = params.EElayer[j].classifier
          /\ early_exit_entropy' = early_exit_entropy
          /\ (\A j \in 1..N : params.EElayer[j].pooler = params.pooler) =>
                params' = params]_vars

\* the copy was made into heads whose poolers differed from the source's and from each
\* other's, under thresholds that are not the constructor's
C24_Witness ==
    /\ pc = "returned"
    /\ call.fn = "init_early_exit_pooler"
    /\ call.before.EElayer[N].pooler # call.before.pooler
    /\ call.before.EElayer[1].pooler # call.before.EElayer[N].pooler
    /\ \A j \in 1..N : params.EElayer[j].pooler = params.pooler
    /\ params.EElayer[1].classifier # params.pooler
    /\ early_exit_entropy # InitThresholds

\* C25: ATTGTeaKDLoss.forward iterates over a list of the same length k as the list of
\* per-stage scores it was given, whose entries 0..k-2 are the given ones and whose last
\* entry is the final score vector passed as outputs; the list of the caller is left as
\* it was, in length and in entries.
C25_LossListCopy ==
    (pc \in {"returned", "raised"} /\ call.fn = "loss_fct") =>
        LET given == call.eachlayer_logits_all
            k == Len(given)
            iterated == call.locals.eachlayer_logits_all
        IN /\ Len(iterated) = k
           /\ \A j \in 1..(k - 1) : j <= Len(iterated) => iterated[j] = given[j]
           /\ iterated[Len(iterated)] = call.outputs
           /\ call.arg_after = given
           /\ pc = "returned" => (Len(outputs[4]) = k /\ Len(outputs[5]) = k)

\* a call with N per-stage scores whose last entry is not the final score vector
C25_Witness ==
    /\ LossReturned
    /\ Len(call.eachlayer_logits_all) = N
    /\ call.eachlayer_logits_all[N] # call.outputs
    /\ call.eachlayer_logits_all[1] # call.eachlayer_logits_all[N]
    /\ call.locals.eachlayer_logits_all[N] = call.outputs
    /\ call.arg_after[N] = call.eachlayer_logits_all[N]

\* C26: when an inference pass with labels exits early at stage k (counted from 1), the
\* 'overall' entropy of the metadata is the k-th, the last, recorded per-stage confidence
\* and is strictly below the threshold of stage k, while every earlier recorded
\* confidence is not below the threshold of its stage.
C26_OverallEntropy ==
    [][(/\ InForward /\ ~training /\ pc = "tail"
        /\ exc.type = "EElayerException"
        /\ pc' = "returned"
        /\ call'.labels # <<>>) =>
          LET k == exc.exit_layer
              meta == outputs'[Len(outputs') - 1]
          IN /\ Last(outputs') = k
             /\ Len(meta[2]) = k
             /\ meta[1] = meta[2][k]
             /\ Len(meta[1]) = 1
             /\ Less(meta[1][1], early_exit_entropy.v[k])
             /\ \A j \in 1..(k - 1) : ~Less(meta[2][j][1], early_exit_entropy.v[j])]_vars

\* a pass with labels that exited at the second stage under thresholds at log(C): the
\* first stage scored uniformly, with the entropy log(C), which is not below it
C26_Witness ==
    /\ InForward /\ ~training /\ pc = "returned"
    /\ call.labels # <<>>
    /\ Last(outputs) = 2
    /\ early_exit_entropy.v[1] = LogC
    /\ early_exit_entropy.v[2] = LogC
    /\ outputs[Len(outputs) - 1][2][1][1] = Fin(LogC)
    /\ outputs[Len(outputs) - 1][1] = outputs[Len(outputs) - 1][2][2]

\* C27: the exit index alone does not tell the two ways an inference pass ends at the
\* last stage apart: an early exit fired at stage N-1 and a completed pass both report
\* the exit index N, but the score vector is the running ensemble score of stage N in
\* the first case and the output of the top-level classifier in the second.
C27_ExitIndexNAmbiguous ==
    [][(InForward /\ ~training /\ pc = "tail" /\ i = N /\ pc' = "returned") =>
          LET score == outputs'[IF call'.labels = <<>> THEN 1 ELSE 2]
          IN /\ Last(outputs') = N
             /\ call'.output_layer < 0 =>
                   IF exc.type = "EElayerException"
                   THEN score = all_EElayer_exits[N][1]
                   ELSE score \in ClassifierScores(call.batch)]_vars

\* a pass that exited early at the last stage has returned the exit index N with the
\* running ensemble score of stage N, which is no output of the top-level classifier
C27_Witness ==
    /\ InForward /\ ~training /\ pc = "returned"
    /\ Last(outputs) = N
    /\ Confident(N)
    /\ call.output_layer < 0
    /\ call.labels = <<>>
    /\ outputs[1] = all_EElayer_exits[N][1]
    /\ outputs[1] \notin ClassifierScores(call.batch)

\* C28: in inference mode, for every output_layer j in 0..N-1, with any thresholds and
\* with labels or without, BertForSequenceClassification.forward returns as its score
\* vector the running ensemble score of stage j of that pass.  Stated for C > 1 and for
\* the calls whose staged pass reached the tail of forward.
C28_OutputLayerScore ==
    (/\ InForward /\ ~training /\ pc \in {"returned", "raised"}
     /\ "output_layer" \in DOMAIN call
     /\ call.output_layer >= 0
     /\ num_labels > 1) =>
        /\ pc = "returned"
        /\ outputs[IF call.labels = <<>> THEN 1 ELSE 2]
              = all_EElayer_exits[call.output_layer + 1][1]

C29_EvaluateReturns ==
    (/\ caller = "evaluate" /\ num_labels > 1
     /\ eval_args.eval_batch_size = 1
     /\ eval_args.output_layer < 0) =>
        pc # "raised"

\* the exit-layer counter of evaluate(): one key for each exit index 1..N, counts that
\* are not negative and sum to the number of batches processed
ExitCounterConsistent ==
    /\ DOMAIN exit_layer_counter = 1..N
    /\ \A l \in DOMAIN exit_layer_counter : exit_layer_counter[l] >= 0
    /\ SumSeq([l \in 1..N |-> exit_layer_counter[l]]) = nb_eval_steps

\* C30: with eval_threshold set, after any sequence of evaluated batches the exit-layer
\* counter has the keys 1..N and counts that sum to the number of batches processed;
\* each batch has incremented exactly one key, the exit index of the batch; and the
\* reported saving sum(l * count[l]) / (batches * N) lies in [1/N, 1].
C30_ExitCounter ==
    [][(caller = "evaluate" /\ eval_args.eval_threshold) =>
          /\ ExitCounterConsistent
          /\ ExitCounterConsistent'
          /\ nb_eval_steps' # nb_eval_steps =>
                /\ nb_eval_steps' = nb_eval_steps + 1
                /\ Last(outputs) \in 1..N
                /\ Last(outputs) = Len(all_EElayer_exits)
                /\ exit_layer_counter' =
                      [exit_layer_counter EXCEPT ![Last(outputs)] = @ + 1]
          /\ exit_layer_counter' # exit_layer_counter => nb_eval_steps' # nb_eval_steps
          /\ pc' = "evaluated" =>
                /\ nb_eval_steps = eval_args.batches
                /\ eval_result'.full_cost = eval_args.batches * N
                /\ eval_result'.actual_cost =
                      SumSeq([l \in 1..N |-> l * exit_layer_counter[l]])
                /\ eval_result'.actual_cost * N >= eval_result'.full_cost
                /\ eval_result'.actual_cost <= eval_result'.full_cost]_vars

\* an evaluation of MaxSteps batches has returned, one of which left at the first stage
\* and one ran to the last: the saving lies strictly between 1/N and 1
C30_Witness ==
    /\ caller = "evaluate"
    /\ pc = "evaluated"
    /\ eval_args.batches = MaxSteps
    /\ exit_layer_counter[1] >= 1
    /\ exit_layer_counter[N] >= 1
    /\ eval_result.actual_cost * N > eval_result.full_cost
    /\ eval_result.actual_cost < eval_result.full_cost

====
